---- MODULE Spec2Model ----
(***************************************************************************)
(* Model of the diagram editor glue of gojs-react-basic                    *)
(* (src/components/DiagramWrapper.tsx, its earlier variant, and            *)
(* src/components/initGoJs.ts, all three concatenated in                   *)
(* src/src/components/DiagramWrapper.tsx).                                 *)
(*                                                                         *)
(* The GraphLinksModel is modelled by two maps, key -> node record and     *)
(* key -> link record.  The key allocators, the drop handlers, the         *)
(* lifecycle methods, the port tables and the link-label handler follow    *)
(* the source line by line; the calls into the diagramming library         *)
(* (addNodeData, addLinkData, linking tools, listener lists) follow the    *)
(* library's documented behaviour at the place the source calls them.      *)
(***************************************************************************)
EXTENDS Integers, FiniteSets, Sequences, TLC

VARIABLES
    cfg,            \* which initializer built the diagram: "A", "B" or "G"
    env,            \* [ref, diagram, div]: which references exist
    nodes,          \* model.nodeDataArray as a map key -> record
    links,          \* model.linkDataArray as a map key -> record
    view,           \* the diagram's view transform [scale, pos]
    phase,          \* "constructed", "mounted" or "unmounted"
    onDiagramEvent, \* this.props.onDiagramEvent, a callback identity
    divListeners,   \* DOM listeners on diagram.div: set of <<type, handler>>
    selListeners,   \* the diagram's "ChangedSelection" listeners
    page,           \* document.title, #SaveButton and diagram.isModified
    last            \* record of the step just taken (history)

vars == <<cfg, env, nodes, links, view, phase, onDiagramEvent,
          divListeners, selListeners, page, last>>

-----------------------------------------------------------------------------
(* Bounds *)

MaxNodes == 3
MaxLinks == 2
MaxDrawn == 1
MaxDropNodes == 2
MaxLinkNodes == 4
MaxTitle == 2

-----------------------------------------------------------------------------
(* Small helpers *)

Empty == [k \in {} |-> 0]

Put(f, k, v) == [x \in (DOMAIN f) \cup {k} |-> IF x = k THEN v ELSE f[x]]

Without(f, ks) == [x \in (DOMAIN f) \ ks |-> f[x]]

\* a data object handed to the model: the key property may be undefined
NoKeyData == [hasKey |-> FALSE, key |-> 0]

KeyData(k) == [hasKey |-> TRUE, key |-> k]

-----------------------------------------------------------------------------
(* Model lookups *)

findNodeDataForKey(m, k) == k \in DOMAIN m

findLinkDataForKey(m, k) == k \in DOMAIN m

-----------------------------------------------------------------------------
(* Key allocators *)

\* variant of NodeStartKey that starts the search at 2
NodeStartKeyFromTwo(data) == IF data.hasKey /\ data.key # 0 THEN data.key ELSE 2

\* variant of LinkStartKey that starts the search at 1, as the node allocator does
LinkStartKeyPositive(data) == IF data.hasKey /\ data.key # 0 THEN data.key ELSE 1

\* let k = data.key || 1   (undefined and 0 are falsy)
NodeStartKey(data) == IF data.hasKey /\ data.key # 0 THEN data.key ELSE 1

\* let k = data.key || -1
LinkStartKey(data) == IF data.hasKey /\ data.key # 0 THEN data.key ELSE -1

RECURSIVE NodeProbe(_, _)
\* while (m.findNodeDataForKey(k)) k++;
NodeProbe(m, k) == IF findNodeDataForKey(m, k) THEN NodeProbe(m, k + 1) ELSE k

RECURSIVE LinkProbe(_, _)
\* while (m.findLinkDataForKey(k)) k--;
LinkProbe(m, k) == IF findLinkDataForKey(m, k) THEN LinkProbe(m, k - 1) ELSE k

makeUniqueKeyFunction(m, data) == NodeProbe(m, NodeStartKey(data))

RECURSIVE NodeProbes(_, _)
\* how often the condition of while (m.findNodeDataForKey(k)) k++ is evaluated
NodeProbes(m, k) == IF findNodeDataForKey(m, k) THEN 1 + NodeProbes(m, k + 1) ELSE 1

RECURSIVE LinkProbes(_, _)
\* how often the condition of while (m.findLinkDataForKey(k)) k-- is evaluated
LinkProbes(m, k) == IF findLinkDataForKey(m, k) THEN 1 + LinkProbes(m, k - 1) ELSE 1

\* variant of NodeProbeCount for a search that runs from 1 and then again
\* from the supplied key
NodeProbeCountRestarting(m, data) == NodeProbes(m, 1) + NodeProbes(m, NodeStartKey(data))

\* the probes of one call of makeUniqueKeyFunction
NodeProbeCount(m, data) == NodeProbes(m, NodeStartKey(data))

\* the probes of one call of makeUniqueLinkKeyFunction
LinkProbeCount(m, data) == LinkProbes(m, LinkStartKey(data))

makeUniqueLinkKeyFunction(m, data) == LinkProbe(m, LinkStartKey(data))

-----------------------------------------------------------------------------
(* Drop-to-node mapping *)

\* switch (text) in determineNodeType
determineNodeType(text) ==
    CASE text = "area" -> "Branching"
      [] text = "tools" -> "Start"
      [] text = "happen" -> "End"
      [] OTHER -> "Screen"

\* variant of determineNodeText whose default label is the category name
determineNodeTextByCategory(text) ==
    CASE text = "area" -> "Branching"
      [] text = "tools" -> "Start"
      [] text = "happen" -> "End"
      [] OTHER -> "Screen"

\* switch (text) in determineNodeText
determineNodeText(text) ==
    CASE text = "area" -> "Branching"
      [] text = "tools" -> "Start"
      [] text = "happen" -> "End"
      [] OTHER -> "Display Screen"

\* event.dataTransfer?.getData("text/plain") ?? ""
DropText(event) == IF event.hasData THEN event.text ELSE ""

-----------------------------------------------------------------------------
(* View transform and drop geometry *)

IdentityView == [scale |-> 1, pos |-> <<0, 0>>]

\* diagram.transformViewToDoc(p): document = view / scale + position
transformViewToDoc(v, p) ==
    <<(p[1] \div v.scale) + v.pos[1], (p[2] \div v.scale) + v.pos[2]>>

\* the fixed point read by the first drop handler: const mx = 70, my = 70
FixedDropPoint == <<70, 70>>

\* if (bbw === 0) bbw = 0.001, kept in thousandths
BoxDim(w) == IF w = 0 THEN 1 ELSE w * 1000

\* bbox.left * (can.width / pixelratio / bbw) with pixelratio = 2.5
ScaledOffset(off, canDim, boxDim) ==
    (off * canDim * 2 * 1000) \div (5 * BoxDim(boxDim))

\* mx = event.clientX - bbox.left * (can.width / pixelratio / bbw), same for y
CanvasDropPoint(event) ==
    <<event.clientX - ScaledOffset(event.left, event.canW, event.bbw),
      event.clientY - ScaledOffset(event.top, event.canH, event.bbh)>>

\* the viewport (canvas-relative) pixel at which the pointer released
DropViewPoint(event) == <<event.clientX - event.left, event.clientY - event.top>>

-----------------------------------------------------------------------------
(* Port tables *)

makePort(name, output, input) ==
    [portId |-> name, fromLinkable |-> output, toLinkable |-> input]

\* node templates of initDiagram (first variant)
TemplatesA(cat) ==
    CASE cat = "Screen" ->
           {makePort("T", TRUE, TRUE), makePort("L", TRUE, TRUE),
            makePort("R", TRUE, TRUE), makePort("B", TRUE, TRUE)}
      [] cat = "Branching" ->
           {makePort("T", TRUE, TRUE), makePort("L", TRUE, TRUE),
            makePort("R", TRUE, TRUE)}
      [] cat = "Start" ->
           {makePort("L", TRUE, FALSE), makePort("R", TRUE, FALSE),
            makePort("B", TRUE, FALSE)}
      [] cat = "End" ->
           {makePort("L", FALSE, TRUE), makePort("R", FALSE, TRUE),
            makePort("T", FALSE, TRUE)}
      [] OTHER -> {}

\* node templates of initDiagram (second variant): no End template
TemplatesB(cat) ==
    CASE cat = "Screen" ->
           {makePort("T", TRUE, TRUE), makePort("L", TRUE, TRUE),
            makePort("R", TRUE, TRUE), makePort("B", TRUE, TRUE)}
      [] cat = "Branching" ->
           {makePort("T", TRUE, TRUE), makePort("L", TRUE, TRUE),
            makePort("R", TRUE, TRUE)}
      [] cat = "Start" ->
           {makePort("L", TRUE, FALSE), makePort("R", TRUE, FALSE),
            makePort("B", TRUE, FALSE)}
      [] OTHER -> {}

\* node templates of initGoDiagram; the default template gets no port (the
\* four makePort calls after it are statements whose result is discarded)
TemplatesG(cat) ==
    CASE cat = "Conditional" ->
           {makePort("T", FALSE, TRUE), makePort("L", TRUE, TRUE),
            makePort("R", TRUE, TRUE), makePort("B", TRUE, FALSE)}
      [] cat = "Start" ->
           {makePort("L", TRUE, FALSE), makePort("R", TRUE, FALSE),
            makePort("B", TRUE, FALSE)}
      [] cat = "End" ->
           {makePort("T", FALSE, TRUE), makePort("L", FALSE, TRUE),
            makePort("R", FALSE, TRUE)}
      [] OTHER -> {}

nodeTemplateMap(c, cat) ==
    CASE c = "A" -> TemplatesA(cat)
      [] c = "B" -> TemplatesB(cat)
      [] OTHER -> TemplatesG(cat)

\* linkFromPortIdProperty / linkToPortIdProperty are set by the first variant only
StoresPorts(c) == c = "A"

\* the link template has a panel named "LABEL" in initGoDiagram only
HasLabel(c) == c = "G"

\* LinkDrawn / LinkRelinked listeners are registered by initGoDiagram only
HasLinkListeners(c) == c = "G"

\* allowZoom: false in the first variant
AllowZoom(c) == c # "A"

\* the model configures the two key allocators in initDiagram only
HasKeyFunctions(c) == c \in {"A", "B"}

\* label.visible = e.subject.fromNode.data.category === "Conditional"
LabelVisible(fromCategory) == fromCategory = "Conditional"

\* showLinkLabel applied to a link record whose source node has fromCategory
showLinkLabel(c, link, fromCategory) ==
    IF HasLabel(c) THEN [link EXCEPT !.visible = LabelVisible(fromCategory)]
    ELSE link

-----------------------------------------------------------------------------
(* Inputs *)

Callbacks == {"f1", "f2"}

AllPresent == [ref |-> TRUE, diagram |-> TRUE, div |-> TRUE]

\* getDiagram() needs the component, the div needs the diagram
Environments ==
    {e \in [ref : BOOLEAN, diagram : BOOLEAN, div : BOOLEAN] :
        (e.diagram => e.ref) /\ (e.div => e.diagram)}

Geometries ==
    { [clientX |-> 70, clientY |-> 70, left |-> 0, top |-> 0,
       bbw |-> 100, bbh |-> 100, canW |-> 250, canH |-> 250, canvas |-> TRUE],
      [clientX |-> 30, clientY |-> 40, left |-> 10, top |-> 10,
       bbw |-> 100, bbh |-> 100, canW |-> 100, canH |-> 100, canvas |-> TRUE],
      [clientX |-> 70, clientY |-> 70, left |-> 10, top |-> 10,
       bbw |-> 0, bbh |-> 0, canW |-> 0, canH |-> 0, canvas |-> TRUE],
      [clientX |-> 70, clientY |-> 70, left |-> 0, top |-> 0,
       bbw |-> 100, bbh |-> 100, canW |-> 250, canH |-> 250, canvas |-> FALSE] }

Payloads ==
    {[hasData |-> TRUE, text |-> t] : t \in {"area", "tools", "happen", "Area", "x", ""}}
    \cup {[hasData |-> FALSE, text |-> ""]}

MainGeometry ==
    [clientX |-> 70, clientY |-> 70, left |-> 0, top |-> 0,
     bbw |-> 100, bbh |-> 100, canW |-> 250, canH |-> 250, canvas |-> TRUE]

MainPayload == [hasData |-> TRUE, text |-> "area"]

DropEvent(p, g) ==
    [hasData |-> p.hasData, text |-> p.text,
     clientX |-> g.clientX, clientY |-> g.clientY, left |-> g.left, top |-> g.top,
     bbw |-> g.bbw, bbh |-> g.bbh, canW |-> g.canW, canH |-> g.canH,
     canvas |-> g.canvas]

AbsentPayload == [hasData |-> FALSE, text |-> ""]

OffCanvasGeometry == [MainGeometry EXCEPT !.canvas = FALSE]

\* every payload at the main geometry, the main payload at every geometry,
\* and a drop without payload off the canvas
DropEvents ==
    {DropEvent(p, MainGeometry) : p \in Payloads}
    \cup {DropEvent(MainPayload, g) : g \in Geometries}
    \cup {DropEvent(AbsentPayload, OffCanvasGeometry)}

NoEvent ==
    [hasData |-> FALSE, text |-> "", clientX |-> 0, clientY |-> 0, left |-> 0,
     top |-> 0, bbw |-> 0, bbh |-> 0, canW |-> 0, canH |-> 0, canvas |-> FALSE]

ViewPositions == {<<0, 0>>, <<10, 10>>}

ViewScales == {1, 2}

SuppliedNodeKeys == {-1, 0, 1, 2}

SuppliedLinkKeys == {1, 0, -1, -2}

PortNames == {"T", "L", "R", "B"}

DropCategories == {"Screen", "Branching", "Start", "End"}

GoCategories == {"", "Conditional", "Start", "End", "Branching"}

Categories(c) == IF c = "G" THEN GoCategories ELSE DropCategories

\* history record of the step just taken
Step(op) ==
    [op |-> op, key |-> 0, hasKey |-> FALSE, given |-> 0, event |-> NoEvent,
     handled |-> FALSE, inserted |-> FALSE, invoked |-> {}, was |-> FALSE, probes |-> 0]

-----------------------------------------------------------------------------
(* The model's insertion and removal *)

\* the library's own key generation when no key function is configured
DefaultKey(m) == LinkProbe(m, -1)

\* Model.addNodeData: a key that is undefined or in use is replaced by a unique one
NodeKeyFor(c, m, data) ==
    IF data.hasKey /\ ~findNodeDataForKey(m, data.key) THEN data.key
    ELSE IF HasKeyFunctions(c) THEN makeUniqueKeyFunction(m, data)
    ELSE DefaultKey(m)

\* GraphLinksModel.addLinkData with linkKeyProperty "key"
LinkKeyFor(c, m, data) ==
    IF data.hasKey /\ ~findLinkDataForKey(m, data.key) THEN data.key
    ELSE IF HasKeyFunctions(c) THEN makeUniqueLinkKeyFunction(m, data)
    ELSE DefaultKey(m)

\* the probes that one addNodeData spends in makeUniqueKeyFunction
NodeKeyProbes(c, m, data) ==
    IF data.hasKey /\ ~findNodeDataForKey(m, data.key) THEN 0
    ELSE IF HasKeyFunctions(c) THEN NodeProbeCount(m, data)
    ELSE 0

\* the probes that one addLinkData spends in makeUniqueLinkKeyFunction
LinkKeyProbes(c, m, data) ==
    IF data.hasKey /\ ~findLinkDataForKey(m, data.key) THEN 0
    ELSE IF HasKeyFunctions(c) THEN LinkProbeCount(m, data)
    ELSE 0

\* a node data object without a "loc" property
LocUndefined == [defined |-> FALSE, text |-> ""]

\* Node.location of a part that no binding has set: not a real point yet
Unplaced == [real |-> FALSE, at |-> <<0, 0>>]

\* a node data object with the properties handleDrop writes, and the node
\* made from it: its "loc" property and the location of its part
NodeRecord(cat, text, loc) ==
    [category |-> cat, text |-> text, location |-> loc, loc |-> LocUndefined, pos |-> Unplaced]

LinkRecord(f, fp, t, tp) ==
    [from |-> f, to |-> t, fromPort |-> fp, toPort |-> tp, visible |-> FALSE]

\* removing a node part also removes the links connected to it
LinksOf(k) == {l \in DOMAIN links : links[l].from = k \/ links[l].to = k}

-----------------------------------------------------------------------------
(* Document title, save button and the "Modified" listener *)

TitleChars == {"a", "*"}

Titles == UNION {[1..n -> TitleChars] : n \in 0..MaxTitle}

\* document.querySelector("#SaveButton"): null, or a button
Buttons == {"absent", "enabled", "disabled"}

\* the page before the diagram is edited; orig remembers the first title
InitialPages ==
    {[title |-> t, orig |-> t, isModified |-> FALSE, button |-> b] :
        t \in Titles, b \in Buttons}

DefaultPage == [title |-> <<"a">>, orig |-> <<"a">>, isModified |-> FALSE, button |-> "absent"]

\* String.prototype.indexOf for one character: 0-based, -1 when absent
indexOf(t, c) ==
    IF \E i \in 1..Len(t) : t[i] = c
    THEN (CHOOSE i \in 1..Len(t) : t[i] = c /\ \A j \in 1..(i - 1) : t[j] # c) - 1
    ELSE -1

\* String.prototype.substr(0, n)
substr(t, n) == SubSeq(t, 1, n)

\* variant of ModifiedListener that cuts the title after the "*"
ModifiedListenerKeepingStar(pg) ==
    LET idx == indexOf(pg.title, "*")
    IN  [pg EXCEPT
            !.button = IF @ = "absent" THEN @
                       ELSE IF pg.isModified THEN "enabled" ELSE "disabled",
            !.title = IF pg.isModified
                      THEN (IF idx < 0 THEN Append(@, "*") ELSE @)
                      ELSE (IF idx >= 0 THEN substr(@, idx + 1) ELSE @)]

\* the "Modified" listener of initGoDiagram
ModifiedListener(pg) ==
    LET idx == indexOf(pg.title, "*")
    IN  [pg EXCEPT
            !.button = IF @ = "absent" THEN @
                       ELSE IF pg.isModified THEN "enabled" ELSE "disabled",
            !.title = IF pg.isModified
                      THEN (IF idx < 0 THEN Append(@, "*") ELSE @)
                      ELSE (IF idx >= 0 THEN substr(@, idx) ELSE @)]

\* addDiagramListener("Modified", ...) is called by initGoDiagram only
HasModifiedListener(c) == c = "G"

\* the diagram raises "Modified" with isModified = m
RaiseModified(c, pg, m) ==
    IF HasModifiedListener(c)
    THEN ModifiedListener([pg EXCEPT !.isModified = m])
    ELSE [pg EXCEPT !.isModified = m]

\* Diagram.isModified is set to m; "Modified" is raised when the value changes
SetModified(c, pg, m) == IF pg.isModified = m THEN pg ELSE RaiseModified(c, pg, m)

\* a step that changes the model makes the diagram modified
Edited ==
    page' = IF nodes' # nodes \/ links' # links THEN SetModified(cfg, page, TRUE) ELSE page

-----------------------------------------------------------------------------
(* Initial state *)

Init ==
    /\ cfg \in {"A", "B", "G"}
    /\ env \in Environments
    /\ (cfg = "G" => env = AllPresent)
    /\ nodes = Empty
    /\ links = Empty
    /\ view = IdentityView
    /\ phase = "constructed"
    /\ onDiagramEvent \in Callbacks
    /\ divListeners = {}
    /\ selListeners = {}
    /\ page \in InitialPages
    /\ last = Step("init")

-----------------------------------------------------------------------------
(* Component lifecycle *)

DragHandlers == {<<"dragenter", "handleDragEnter">>, <<"dragover", "handleDragOver">>,
                 <<"drop", "handleDrop">>}

componentDidMount ==
    /\ cfg \in {"A", "B"}
    /\ phase = "constructed"
    /\ phase' = "mounted"
    /\ divListeners' = IF env.ref /\ env.diagram /\ env.div
                       THEN divListeners \cup DragHandlers ELSE divListeners
    /\ selListeners' = IF env.ref /\ env.diagram
                       THEN selListeners \cup {onDiagramEvent} ELSE selListeners
    /\ last' = Step("mount")
    /\ UNCHANGED <<cfg, env, nodes, links, view, onDiagramEvent>>
    /\ Edited

\* the host re-renders the component with another onDiagramEvent callback
PropsUpdate(f) ==
    /\ cfg \in {"A", "B"}
    /\ phase = "mounted"
    /\ f # onDiagramEvent
    /\ onDiagramEvent' = f
    /\ last' = Step("props")
    /\ UNCHANGED <<cfg, env, nodes, links, view, phase, divListeners, selListeners>>
    /\ Edited

componentWillUnmount ==
    /\ cfg \in {"A", "B"}
    /\ phase = "mounted"
    /\ phase' = "unmounted"
    /\ divListeners' = IF env.ref /\ env.diagram /\ env.div
                       THEN divListeners \ DragHandlers ELSE divListeners
    /\ selListeners' = IF env.ref /\ env.diagram
                       THEN selListeners \ {onDiagramEvent} ELSE selListeners
    /\ last' = Step("unmount")
    /\ UNCHANGED <<cfg, env, nodes, links, view, onDiagramEvent>>
    /\ Edited

\* the diagram raises "ChangedSelection": every registered listener is called
SelectionChange ==
    /\ cfg \in {"A", "B"}
    /\ env.diagram
    /\ phase # "constructed"
    /\ last' = [Step("selection") EXCEPT !.invoked = selListeners]
    /\ UNCHANGED <<cfg, env, nodes, links, view, phase, onDiagramEvent,
                   divListeners, selListeners>>
    /\ Edited

-----------------------------------------------------------------------------
(* Drop handling *)

\* the node data object built by the first variant's handleDrop
DropDataA(event, v) ==
    NodeRecord(determineNodeType(DropText(event)), determineNodeText(DropText(event)),
               transformViewToDoc(v, FixedDropPoint))

\* the node data object built by the second variant's handleDrop
DropDataB(event, v) ==
    NodeRecord("Screen", "Display Screen", transformViewToDoc(v, CanvasDropPoint(event)))

\* variant of DropInserts without the optional chaining on the diagram
DropInsertsUnguarded(c, e, event) == c = "B" => event.canvas

\* whether handleDrop reaches diagram?.model.addNodeData with a diagram
DropInserts(c, e, event) ==
    /\ e.ref /\ e.diagram
    /\ (c = "B" => event.canvas)

DropData(c, event, v) == IF c = "A" THEN DropDataA(event, v) ELSE DropDataB(event, v)

\* variant of handleDrop that writes the new node under the start key unprobed
handleDropOverwriting(c, e, m, event, v) ==
    IF DropInserts(c, e, event)
    THEN Put(m, NodeStartKey(NoKeyData), DropData(c, event, v))
    ELSE m

\* handleDrop as a state transformer on the node map
handleDrop(c, e, m, event, v) ==
    IF DropInserts(c, e, event)
    THEN Put(m, NodeKeyFor(c, m, NoKeyData), DropData(c, event, v))
    ELSE m

\* the browser dispatches a drop event on diagram.div
DropOnDiv(event) ==
    /\ cfg \in {"A", "B"}
    /\ env.div
    /\ phase # "constructed"
    /\ LET handled == <<"drop", "handleDrop">> \in divListeners
           inserts == handled /\ DropInserts(cfg, env, event)
       IN  /\ nodes' = IF handled THEN handleDrop(cfg, env, nodes, event, view) ELSE nodes
           /\ last' = [Step("drop") EXCEPT !.event = event, !.handled = handled,
                          !.inserted = inserts,
                          !.key = IF inserts THEN NodeKeyFor(cfg, nodes, NoKeyData) ELSE 0]
    /\ UNCHANGED <<cfg, env, links, view, phase, onDiagramEvent, divListeners, selListeners>>
    /\ Edited

\* the user scrolls the diagram
Pan(p) ==
    /\ env.diagram
    /\ view.pos # p
    /\ view' = [view EXCEPT !.pos = p]
    /\ last' = Step("pan")
    /\ UNCHANGED <<cfg, env, nodes, links, phase, onDiagramEvent, divListeners, selListeners>>
    /\ Edited

\* the user zooms the diagram, where the diagram allows it
Zoom(s) ==
    /\ env.diagram
    /\ AllowZoom(cfg)
    /\ view.scale # s
    /\ view' = [view EXCEPT !.scale = s]
    /\ last' = Step("zoom")
    /\ UNCHANGED <<cfg, env, nodes, links, phase, onDiagramEvent, divListeners, selListeners>>
    /\ Edited

-----------------------------------------------------------------------------
(* Model edits by the host and by the user *)

\* model.addNodeData(data) with or without a key
AddNodeData(data, cat) ==
    /\ env.diagram
    /\ LET k == NodeKeyFor(cfg, nodes, data)
       IN  /\ nodes' = Put(nodes, k, NodeRecord(cat, cat, <<0, 0>>))
           /\ last' = [Step("addNode") EXCEPT !.key = k, !.hasKey = data.hasKey,
                          !.given = data.key, !.inserted = TRUE,
                          !.probes = NodeKeyProbes(cfg, nodes, data)]
    /\ UNCHANGED <<cfg, env, links, view, phase, onDiagramEvent, divListeners, selListeners>>
    /\ Edited

\* model.addLinkData(data) with or without a key
AddLinkData(data, f, t) ==
    /\ env.diagram
    /\ f \in DOMAIN nodes /\ t \in DOMAIN nodes
    /\ LET k == LinkKeyFor(cfg, links, data)
       IN  /\ links' = Put(links, k, LinkRecord(f, "", t, ""))
           /\ last' = [Step("addLink") EXCEPT !.key = k, !.hasKey = data.hasKey,
                          !.given = data.key, !.inserted = TRUE,
                          !.probes = LinkKeyProbes(cfg, links, data)]
    /\ UNCHANGED <<cfg, env, nodes, view, phase, onDiagramEvent, divListeners, selListeners>>
    /\ Edited

\* the user deletes a node; its connected links go with it
DeleteNode(k) ==
    /\ k \in DOMAIN nodes
    /\ nodes' = Without(nodes, {k})
    /\ links' = Without(links, LinksOf(k))
    /\ last' = [Step("deleteNode") EXCEPT !.key = k]
    /\ UNCHANGED <<cfg, env, view, phase, onDiagramEvent, divListeners, selListeners>>
    /\ Edited

\* the user deletes a link
DeleteLink(k) ==
    /\ k \in DOMAIN links
    /\ links' = Without(links, {k})
    /\ last' = [Step("deleteLink") EXCEPT !.key = k]
    /\ UNCHANGED <<cfg, env, nodes, view, phase, onDiagramEvent, divListeners, selListeners>>
    /\ Edited

-----------------------------------------------------------------------------
(* Linking tools *)

\* the port of node k named p, if its template has one
PortsOf(k, p) == {q \in nodeTemplateMap(cfg, nodes[k].category) : q.portId = p}

\* the linking tools start a link only at a port with fromLinkable
ValidFrom(k, p) == \E q \in PortsOf(k, p) : q.fromLinkable

\* variant of ValidTo that tests the outgoing flag
ValidToByOutput(k, p) == \E q \in PortsOf(k, p) : q.fromLinkable

\* ... and end it only at a port with toLinkable
ValidTo(k, p) == \E q \in PortsOf(k, p) : q.toLinkable

StoredPort(p) == IF StoresPorts(cfg) THEN p ELSE ""

\* variant of AfterLinkEvent that reads the category of the target node
AfterLinkEventByTarget(link) ==
    IF HasLinkListeners(cfg) THEN showLinkLabel(cfg, link, nodes[link.to].category)
    ELSE link

\* the listeners of LinkDrawn / LinkRelinked applied to a link record
AfterLinkEvent(link) ==
    IF HasLinkListeners(cfg) THEN showLinkLabel(cfg, link, nodes[link.from].category)
    ELSE link

\* the user draws a link from port fp of node f to port tp of node t
LinkDrawn(f, fp, t, tp) ==
    /\ env.diagram
    /\ f \in DOMAIN nodes /\ t \in DOMAIN nodes /\ f # t
    /\ ValidFrom(f, fp) /\ ValidTo(t, tp)
    /\ LET k == LinkKeyFor(cfg, links, NoKeyData)
       IN  /\ links' = Put(links, k,
                           AfterLinkEvent(LinkRecord(f, StoredPort(fp), t, StoredPort(tp))))
           /\ last' = [Step("LinkDrawn") EXCEPT !.key = k, !.inserted = TRUE]
    /\ UNCHANGED <<cfg, env, nodes, view, phase, onDiagramEvent, divListeners, selListeners>>
    /\ Edited

\* the user drags the source end of link l to port p of node n
RelinkFrom(l, n, p) ==
    /\ env.diagram
    /\ l \in DOMAIN links /\ n \in DOMAIN nodes
    /\ n # links[l].to
    /\ ValidFrom(n, p)
    /\ links' = [links EXCEPT ![l] =
                    AfterLinkEvent([@ EXCEPT !.from = n, !.fromPort = StoredPort(p)])]
    /\ last' = [Step("LinkRelinked") EXCEPT !.key = l, !.was = links[l].visible]
    /\ UNCHANGED <<cfg, env, nodes, view, phase, onDiagramEvent, divListeners, selListeners>>
    /\ Edited

\* the user drags the target end of link l to port p of node n
RelinkTo(l, n, p) ==
    /\ env.diagram
    /\ l \in DOMAIN links /\ n \in DOMAIN nodes
    /\ n # links[l].from
    /\ ValidTo(n, p)
    /\ links' = [links EXCEPT ![l] =
                    AfterLinkEvent([@ EXCEPT !.to = n, !.toPort = StoredPort(p)])]
    /\ last' = [Step("LinkRelinked") EXCEPT !.key = l, !.was = links[l].visible]
    /\ UNCHANGED <<cfg, env, nodes, view, phase, onDiagramEvent, divListeners, selListeners>>
    /\ Edited

-----------------------------------------------------------------------------
(* The location binding of nodeStyle *)

\* the points the layout puts a node at, or the user drags it to
MovePoints == {<<70, 70>>, <<120, 40>>, <<0, -30>>}

\* go.Point.stringify(p): "x y"
stringify(p) == ToString(p[1]) \o " " \o ToString(p[2])

\* go.Point.parse(s) over the strings the binding writes; no numbers read
\* gives the origin
parse(s) ==
    IF \E p \in MovePoints : stringify(p) = s
    THEN CHOOSE p \in MovePoints : stringify(p) = s
    ELSE <<0, 0>>

\* Node.location is set to p: the two-way binding of nodeStyle writes
\* Point.stringify(p) to the "loc" property of the node data
SetLocation(node, p) ==
    [node EXCEPT !.pos = [real |-> TRUE, at |-> p],
                 !.loc = [defined |-> TRUE, text |-> stringify(p)]]

\* the diagram's default layout positions a node that has no real location
LayoutPlaces(k, p) ==
    /\ env.diagram
    /\ k \in DOMAIN nodes
    /\ ~nodes[k].pos.real
    /\ nodes' = [nodes EXCEPT ![k] = SetLocation(@, p)]
    /\ last' = [Step("layout") EXCEPT !.key = k]
    /\ UNCHANGED <<cfg, env, links, view, phase, onDiagramEvent, divListeners, selListeners>>
    /\ Edited

\* the user drags a placed node to another point
MoveNode(k, p) ==
    /\ env.diagram
    /\ k \in DOMAIN nodes
    /\ nodes[k].pos.real
    /\ nodes[k].pos.at # p
    /\ nodes' = [nodes EXCEPT ![k] = SetLocation(@, p)]
    /\ last' = [Step("move") EXCEPT !.key = k]
    /\ UNCHANGED <<cfg, env, links, view, phase, onDiagramEvent, divListeners, selListeners>>
    /\ Edited

-----------------------------------------------------------------------------
(* The "Modified" diagram event *)

\* the diagram raises "Modified": after an edit or an undo back to the saved
\* state, or because the host sets diagram.isModified
ModifiedEvent(m) ==
    /\ env.diagram
    /\ page' = RaiseModified(cfg, page, m)
    /\ last' = [Step("Modified") EXCEPT !.was = page.isModified]
    /\ UNCHANGED <<cfg, env, nodes, links, view, phase, onDiagramEvent, divListeners, selListeners>>

-----------------------------------------------------------------------------
(* Handlers reached without their references *)

NoneLeft == [ref |-> FALSE, diagram |-> FALSE, div |-> FALSE]

\* the diagram component goes away: diagramElRef.current becomes null
RefCleared ==
    /\ cfg \in {"A", "B"}
    /\ env.ref
    /\ env' = NoneLeft
    /\ last' = Step("refCleared")
    /\ UNCHANGED <<cfg, nodes, links, view, phase, onDiagramEvent, divListeners, selListeners>>
    /\ Edited

\* this.handleDrop(event) called whatever the references are
InvokeHandleDrop(event) ==
    /\ cfg \in {"A", "B"}
    /\ nodes' = handleDrop(cfg, env, nodes, event, view)
    /\ last' = [Step("handleDrop") EXCEPT !.event = event, !.handled = TRUE,
                   !.inserted = DropInserts(cfg, env, event),
                   !.key = IF DropInserts(cfg, env, event)
                           THEN NodeKeyFor(cfg, nodes, NoKeyData) ELSE 0]
    /\ UNCHANGED <<cfg, env, links, view, phase, onDiagramEvent, divListeners, selListeners>>
    /\ Edited

\* showLinkLabel({subject: link}) called on a link of the diagram
InvokeShowLinkLabel(l) ==
    /\ l \in DOMAIN links
    /\ links' = [links EXCEPT ![l] = showLinkLabel(cfg, @, nodes[@.from].category)]
    /\ last' = [Step("showLinkLabel") EXCEPT !.key = l, !.was = links[l].visible]
    /\ UNCHANGED <<cfg, env, nodes, view, phase, onDiagramEvent, divListeners, selListeners>>
    /\ Edited

-----------------------------------------------------------------------------
(* Specifications *)

NodeDatas == {NoKeyData} \cup {KeyData(k) : k \in SuppliedNodeKeys}

LinkDatas == {NoKeyData} \cup {KeyData(k) : k \in SuppliedLinkKeys}

NodeRoom(n) == Cardinality(DOMAIN nodes) < n

LinkRoom(n) == Cardinality(DOMAIN links) < n

Lifecycle ==
    \/ componentDidMount
    \/ \E f \in Callbacks : PropsUpdate(f)
    \/ componentWillUnmount
    \/ SelectionChange

Viewing ==
    \/ \E p \in ViewPositions : Pan(p)
    \/ \E s \in ViewScales : Zoom(s)

Dropping == NodeRoom(MaxDropNodes) /\ \E event \in DropEvents : DropOnDiv(event)

KeyedNodes == NodeRoom(MaxNodes) /\ \E d \in NodeDatas : AddNodeData(d, "Screen")

KeyedLinks ==
    LinkRoom(MaxLinks) /\ \E d \in LinkDatas : \E f, t \in DOMAIN nodes : AddLinkData(d, f, t)

\* the nodes that host-inserted links connect
EndNodes == NodeRoom(MaxLinks) /\ AddNodeData(NoKeyData, "Screen")

Deleting ==
    \/ \E k \in DOMAIN nodes : DeleteNode(k)
    \/ \E k \in DOMAIN links : DeleteLink(k)

\* the order in which the templates are added to nodeTemplateMap; other
\* categories fall back to the default template
PasteOrder(c) ==
    IF c = "G" THEN <<"Conditional", "Start", "End", "", "Branching">>
    ELSE <<"Screen", "Branching", "Start", "End">>

\* nodes to link, as they arrive from the host's nodeDataArray or from drops:
\* ports depend on the category only, so one node per category, in template order
Populating ==
    /\ NodeRoom(MaxLinkNodes)
    /\ Cardinality(DOMAIN nodes) < Len(PasteOrder(cfg))
    /\ AddNodeData(NoKeyData, PasteOrder(cfg)[Cardinality(DOMAIN nodes) + 1])

Linking ==
    \/ LinkRoom(MaxDrawn) /\ \E f, t \in DOMAIN nodes : \E fp, tp \in PortNames :
            LinkDrawn(f, fp, t, tp)
    \/ \E l \in DOMAIN links : \E n \in DOMAIN nodes : \E p \in PortNames : RelinkFrom(l, n, p)
    \/ \E l \in DOMAIN links : \E n \in DOMAIN nodes : \E p \in PortNames : RelinkTo(l, n, p)

\* key allocation: insertions with and without keys, deletions
InitKeys == Init /\ cfg \in {"A", "B"} /\ env = AllPresent /\ page = DefaultPage

NextKeys == KeyedNodes \/ \E k \in DOMAIN nodes : DeleteNode(k)

SpecKeys == InitKeys /\ [][NextKeys]_vars

\* link key allocation: link insertions with and without keys, link deletions
NextLinkKeys == EndNodes \/ KeyedLinks \/ \E k \in DOMAIN links : DeleteLink(k)

SpecLinkKeys == InitKeys /\ [][NextLinkKeys]_vars

\* both allocators with supplied keys; every link is a loop at one node
ProbedLinks ==
    LinkRoom(MaxLinks) /\ \E d \in LinkDatas : \E f \in DOMAIN nodes :
        (\A n \in DOMAIN nodes : f <= n) /\ AddLinkData(d, f, f)

NextProbes ==
    \/ KeyedNodes
    \/ ProbedLinks
    \/ \E k \in DOMAIN nodes : DeleteNode(k)
    \/ \E k \in DOMAIN links : DeleteLink(k)

SpecProbes == InitKeys /\ [][NextProbes]_vars

\* the mounted component: lifecycle, drops, scrolling and zooming, deletions
InitDrop == Init /\ cfg \in {"A", "B"} /\ page = DefaultPage

NextDrop == Lifecycle \/ Viewing \/ Dropping \/ \E k \in DOMAIN nodes : DeleteNode(k)

SpecDrop == InitDrop /\ [][NextDrop]_vars

\* the linking tools on each of the three diagrams
InitLink == Init /\ env = AllPresent /\ page = DefaultPage

NextLink == Populating \/ Linking \/ \E k \in DOMAIN links : DeleteLink(k)

SpecLink == InitLink /\ [][NextLink]_vars

\* the guarded paths: handlers run with and without the diagram references
GuardEvents == {DropEvent(p, MainGeometry) : p \in {MainPayload, [hasData |-> TRUE, text |-> "tools"]}}

Guarded ==
    \/ componentDidMount
    \/ componentWillUnmount
    \/ RefCleared
    \/ NodeRoom(MaxDropNodes) /\ \E event \in GuardEvents : InvokeHandleDrop(event)
    \/ LinkRoom(MaxDrawn) /\ \E f, t \in DOMAIN nodes : LinkDrawn(f, "R", t, "L")
    \/ \E l \in DOMAIN links : InvokeShowLinkLabel(l)

NextGuards == Guarded

SpecGuards == InitDrop /\ [][NextGuards]_vars

Moving ==
    \/ \E k \in DOMAIN nodes : \E p \in MovePoints : LayoutPlaces(k, p)
    \/ \E k \in DOMAIN nodes : \E p \in MovePoints : MoveNode(k, p)

InitMove == InitDrop /\ env = AllPresent

NextMove ==
    \/ componentDidMount
    \/ NodeRoom(MaxDropNodes) /\ \E event \in GuardEvents : DropOnDiv(event)
    \/ Moving

SpecMove == InitMove /\ [][NextMove]_vars

\* the Modified listener: events with either value, raised by edits of the
\* model or by the host
InitModified == Init /\ cfg = "G" /\ onDiagramEvent = "f1"

Modifying == \E m \in BOOLEAN : ModifiedEvent(m)

NextModified ==
    \/ Modifying
    \/ NodeRoom(MaxDrawn) /\ AddNodeData(NoKeyData, "Start")
    \/ \E k \in DOMAIN nodes : DeleteNode(k)

SpecModified == InitModified /\ [][NextModified]_vars

Next ==
    Lifecycle \/ Viewing \/ Dropping \/ KeyedNodes \/ KeyedLinks \/ Populating \/ Linking
    \/ Deleting \/ Guarded \/ Moving \/ Modifying

Spec == Init /\ [][Next]_vars

-----------------------------------------------------------------------------
(* Claims *)

KeylessNodeInsert == last'.op = "addNode" /\ ~last'.hasKey

\* C1: a node inserted without a key gets a positive key that no existing node
\* has and that is the smallest positive integer not in use.
C1_NodeKeySmallestFree ==
    [][KeylessNodeInsert =>
          /\ last'.key > 0
          /\ last'.key \notin DOMAIN nodes
          /\ \A j \in 1..(last'.key - 1) : j \in DOMAIN nodes
          /\ DOMAIN nodes' = DOMAIN nodes \cup {last'.key}]_vars

\* key 1 is allocated again while node 2 is still in the model
C1_Witness ==
    /\ last.op = "addNode" /\ ~last.hasKey
    /\ last.key = 1
    /\ 2 \in DOMAIN nodes

KeylessLinkInsert == last'.op = "addLink" /\ ~last'.hasKey

\* C2: a link inserted without a key gets a negative key that no existing link
\* has and that is the negative integer of smallest magnitude not in use.
C2_LinkKeySmallestFree ==
    [][KeylessLinkInsert =>
          /\ last'.key < 0
          /\ last'.key \notin DOMAIN links
          /\ \A j \in (last'.key + 1)..(-1) : j \in DOMAIN links
          /\ DOMAIN links' = DOMAIN links \cup {last'.key}]_vars

\* key -1 is allocated again while link -2 is still in the model
C2_Witness ==
    /\ last.op = "addLink" /\ ~last.hasKey
    /\ last.key = -1
    /\ -2 \in DOMAIN links

\* C3: every node key is a positive integer and every link key is a negative
\* integer, so no integer is both a node key and a link key.
C3_KeySigns ==
    /\ \A k \in DOMAIN nodes : k > 0
    /\ \A k \in DOMAIN links : k < 0
    /\ DOMAIN nodes \cap DOMAIN links = {}

\* the mapping table of the drop-to-node component
TableCategory(text) ==
    IF text = "area" THEN "Branching"
    ELSE IF text = "tools" THEN "Start"
    ELSE IF text = "happen" THEN "End"
    ELSE "Screen"

TableLabel(text) ==
    IF text = "area" THEN "Branching"
    ELSE IF text = "tools" THEN "Start"
    ELSE IF text = "happen" THEN "End"
    ELSE "Display Screen"

DropInserted == last.op = "drop" /\ last.inserted

\* C4: the node inserted by a drop has the category and the label that the
\* mapping table gives for the dropped text.
C4_DropMapping ==
    (DropInserted /\ last.event.hasData) =>
        /\ nodes[last.key].category = TableCategory(last.event.text)
        /\ nodes[last.key].text = TableLabel(last.event.text)

\* C5: the node inserted by a drop is located at the document point of the
\* viewport pixel at which the drop occurred, under the current view transform.
C5_DropLocation ==
    DropInserted =>
        nodes[last.key].location = transformViewToDoc(view, DropViewPoint(last.event))

HandledDrop == last'.op = "drop" /\ last'.handled

OneNodeMore ==
    /\ Cardinality(DOMAIN nodes') = Cardinality(DOMAIN nodes) + 1
    /\ DOMAIN nodes \subseteq DOMAIN nodes'
    /\ \A k \in DOMAIN nodes : nodes'[k] = nodes[k]

\* C6 as stated: every handled drop inserts exactly one node and leaves the
\* existing nodes and the links unchanged.
C6_EveryDropInserts == [][HandledDrop => (OneNodeMore /\ links' = links)]_vars

\* C6 amended: a handled drop inserts exactly one node unless the handler
\* quits because the drop target is not the canvas (second variant); then it
\* edits nothing.  Existing nodes and links are unchanged in both cases.
C6_DropInsertsUnlessQuit ==
    [][HandledDrop =>
          /\ links' = links
          /\ IF cfg = "B" /\ ~last'.event.canvas THEN nodes' = nodes ELSE OneNodeMore]_vars

\* a handled drop added a second node next to an existing one
C6_Witness ==
    /\ last.op = "drop" /\ last.handled /\ last.inserted
    /\ Cardinality(DOMAIN nodes) = 2

AfterLinkGesture == last.op \in {"LinkDrawn", "LinkRelinked"} /\ last.key \in DOMAIN links

\* C7: after a link is drawn or relinked its label is visible if and only if
\* the category of its source node is "Conditional".
C7_LabelIffConditional ==
    AfterLinkGesture =>
        (links[last.key].visible <=> nodes[links[last.key].from].category = "Conditional")

\* a relink moved the source away from a Conditional node and the label hid
C7_Witness ==
    /\ last.op = "LinkRelinked" /\ last.was
    /\ last.key \in DOMAIN links
    /\ ~links[last.key].visible
    /\ nodes[links[last.key].from].category # "Conditional"

\* C8: after a link is drawn from or relinked onto a Branching source node its
\* label is visible.
C8_BranchingLabelVisible ==
    (AfterLinkGesture /\ nodes[links[last.key].from].category = "Branching") =>
        links[last.key].visible

\* the port capability table as the claim gives it
ClaimedPorts(cat) ==
    IF cat = "Screen" THEN
        {[portId |-> "T", fromLinkable |-> FALSE, toLinkable |-> TRUE],
         [portId |-> "L", fromLinkable |-> TRUE, toLinkable |-> TRUE],
         [portId |-> "R", fromLinkable |-> TRUE, toLinkable |-> TRUE],
         [portId |-> "B", fromLinkable |-> TRUE, toLinkable |-> TRUE]}
    ELSE IF cat = "Branching" THEN
        {[portId |-> p, fromLinkable |-> TRUE, toLinkable |-> TRUE] : p \in {"T", "L", "R"}}
    ELSE IF cat = "Start" THEN
        {[portId |-> p, fromLinkable |-> TRUE, toLinkable |-> FALSE] : p \in {"L", "R", "B"}}
    ELSE
        {[portId |-> p, fromLinkable |-> FALSE, toLinkable |-> TRUE] : p \in {"L", "R", "T"}}

\* the same table with the T port of Screen allowing outgoing links too
AmendedPorts(cat) ==
    IF cat = "Screen" THEN
        {[portId |-> p, fromLinkable |-> TRUE, toLinkable |-> TRUE] : p \in PortNames}
    ELSE ClaimedPorts(cat)

FromCategory(l) == nodes[links[l].from].category

ToCategory(l) == nodes[links[l].to].category

\* the source end of link l sits on a port that allows outgoing links
SourceAllowed(l) ==
    \E q \in nodeTemplateMap(cfg, FromCategory(l)) :
        q.fromLinkable /\ (StoresPorts(cfg) => q.portId = links[l].fromPort)

\* the target end of link l sits on a port that allows incoming links
TargetAllowed(l) ==
    \E q \in nodeTemplateMap(cfg, ToCategory(l)) :
        q.toLinkable /\ (StoresPorts(cfg) => q.portId = links[l].toPort)

NoLinkIntoStartOrOutOfEnd ==
    \A l \in DOMAIN links : ToCategory(l) # "Start" /\ FromCategory(l) # "End"

C10_UnmountDetachesAll ==
    phase = "unmounted" =>
        /\ divListeners = {}
        /\ selListeners = {}
        /\ (last.op = "drop" => ~last.inserted)
        /\ (last.op = "selection" => last.invoked = {})

ReferencesMissing == ~env.ref \/ ~env.diagram

NothingTouched ==
    /\ divListeners' = divListeners
    /\ selListeners' = selListeners
    /\ nodes' = nodes
    /\ links' = links

\* C11: with the component reference or the diagram missing, componentDidMount,
\* componentWillUnmount and handleDrop register nothing, remove nothing and
\* leave nodes and links unchanged; showLinkLabel leaves a link that has no
\* "LABEL" object unchanged.
C11_GuardedNoOps ==
    [][/\ (ReferencesMissing /\ last'.op \in {"mount", "unmount", "handleDrop"})
            => NothingTouched
       /\ (last'.op = "showLinkLabel" /\ ~HasLabel(cfg)) => links' = links]_vars

\* handleDrop ran without a diagram while the model held a node and listeners
C11_Witness ==
    /\ last.op = "handleDrop"
    /\ ~env.diagram
    /\ DOMAIN nodes # {}
    /\ divListeners # {}

\* the payload is absent, empty or not one of the three recognised strings
Unrecognised(event) == ~event.hasData \/ event.text \notin {"area", "tools", "happen"}

InsertedDefaultScreen ==
    /\ last.inserted
    /\ last.key \in DOMAIN nodes
    /\ nodes[last.key].category = "Screen"
    /\ nodes[last.key].text = "Display Screen"

\* C12 as stated: a handled drop with an absent, empty or unrecognised payload
\* always inserts a Screen node labelled "Display Screen".
C12_BadPayloadInsertsScreen ==
    (last.op = "drop" /\ last.handled /\ Unrecognised(last.event)) => InsertedDefaultScreen

\* C12 amended: it does so unless the handler quits because the drop target
\* is not the canvas (second variant), and then nothing is inserted.
C12_BadPayloadInsertsScreenOnCanvas ==
    (last.op = "drop" /\ last.handled /\ Unrecognised(last.event)) =>
        IF cfg = "B" /\ ~last.event.canvas THEN ~last.inserted ELSE InsertedDefaultScreen

\* a drop without any dataTransfer payload inserted the default Screen node
C12_Witness ==
    /\ last.op = "drop" /\ last.handled
    /\ ~last.event.hasData
    /\ InsertedDefaultScreen

\* the record of a placed node stores the point the node is at, under the
\* property the drop handler writes
LocationAgrees(k) == nodes[k].pos.real => nodes[k].location = nodes[k].pos.at

\* C13: the location stored in a node record and the position of the node
\* agree once a dropped node is placed, and still agree after a move.
C13_LocationAgrees == \A k \in DOMAIN nodes : LocationAgrees(k)

\* what the code keeps instead: the "loc" property written by the binding
\* parses back to the node's position, and "location" never changes
C13_LocRoundTrips ==
    \A k \in DOMAIN nodes :
        nodes[k].pos.real => nodes[k].loc.defined /\ parse(nodes[k].loc.text) = nodes[k].pos.at

\* addNodeData / addLinkData call the allocator for a record without a key
\* or with a key that is in use
NodeAllocatorCalled == last'.op = "addNode" /\ (~last'.hasKey \/ last'.given \in DOMAIN nodes)

LinkAllocatorCalled == last'.op = "addLink" /\ (~last'.hasKey \/ last'.given \in DOMAIN links)

\* the key the search starts from: the supplied one, 1 / -1 for none or 0
NodeSearchStart == IF last'.hasKey /\ last'.given # 0 THEN last'.given ELSE 1

LinkSearchStart == IF last'.hasKey /\ last'.given # 0 THEN last'.given ELSE -1

\* C14: called with a key in use, the node allocator returns the smallest
\* free integer at or above it and the link allocator the largest free integer
\* at or below it, none or 0 counting as 1 / -1; the record is stored under
\* the returned key, and the returned key is never 0.
C14_SearchFromSuppliedKey ==
    [][/\ NodeAllocatorCalled =>
            /\ last'.key >= NodeSearchStart
            /\ last'.key \notin DOMAIN nodes
            /\ \A j \in NodeSearchStart..(last'.key - 1) : j \in DOMAIN nodes
            /\ last'.key \in DOMAIN nodes'
            /\ last'.key # 0
       /\ LinkAllocatorCalled =>
            /\ last'.key <= LinkSearchStart
            /\ last'.key \notin DOMAIN links
            /\ \A j \in (last'.key + 1)..LinkSearchStart : j \in DOMAIN links
            /\ last'.key \in DOMAIN links'
            /\ last'.key # 0]_vars

\* the same without the last conjuncts: what the allocators do keep
C14_SearchOnly ==
    [][/\ NodeAllocatorCalled =>
            /\ last'.key >= NodeSearchStart
            /\ last'.key \notin DOMAIN nodes
            /\ \A j \in NodeSearchStart..(last'.key - 1) : j \in DOMAIN nodes
            /\ last'.key \in DOMAIN nodes'
       /\ LinkAllocatorCalled =>
            /\ last'.key <= LinkSearchStart
            /\ last'.key \notin DOMAIN links
            /\ \A j \in (last'.key + 1)..LinkSearchStart : j \in DOMAIN links
            /\ last'.key \in DOMAIN links']_vars

C15_LinkWitness ==
    /\ last.op = "addLink"
    /\ last.hasKey
    /\ last.probes = Cardinality(DOMAIN links)
    /\ last.probes >= 2

HasStar(t) == \E i \in 1..Len(t) : t[i] = "*"

\* the Modified listener has run in this step
ListenerRan ==
    /\ HasModifiedListener(cfg)
    /\ last'.op = "Modified" \/ page'.isModified # page.isModified

\* C16: after the Modified listener has run, the title contains "*" iff the
\* diagram is modified and a present save button is disabled iff it is not; an
\* event while modified leaves the title as it is; a title that had no "*" at
\* first is back to that first title when the diagram is unmodified again.
C16_TitleTracksModified ==
    [][ListenerRan =>
          /\ HasStar(page'.title) <=> page'.isModified
          /\ page'.button # "absent" => (page'.button = "disabled" <=> ~page'.isModified)
          /\ (page.isModified /\ page'.isModified) => page'.title = page.title
          /\ (~HasStar(page.orig) /\ page.isModified /\ ~page'.isModified) =>
                page'.title = page.orig]_vars

\* an unmodified diagram again, a non-empty title restored and the button
\* disabled, after the title had carried the "*"
C16_Witness ==
    /\ cfg = "G"
    /\ last.op = "Modified" /\ last.was
    /\ ~page.isModified
    /\ page.orig = <<"a", "a">>
    /\ page.title = page.orig
    /\ page.button = "disabled"

====
